---- MODULE Spec2Model ----
(***************************************************************************)
(* A model of the design store service of src/app.py: the Flask handlers   *)
(* save_design (OPTIONS/POST /api/designs), view_design (GET /d/<code>)    *)
(* and healthz, the helpers cors_ok, require_basic_auth and generate_code, *)
(* and the designs table with its unique index on code.                    *)
(*                                                                         *)
(* A Python str is a sequence of one-character strings followed by `fill`  *)
(* further non-blank characters, so that a text of 1,500,000 characters is *)
(* a value the model can hold. Other Python values carry a type tag t.     *)
(***************************************************************************)
EXTENDS Integers, Sequences, FiniteSets, TLC

(***************************** bounds **************************************)
\* worker threads of the server that handle requests concurrently
NumWorkers == 2
\* rows the designs table may hold before new submissions stop arriving
MaxDesigns == 2
\* readings of datetime.utcnow
MaxClock == 1

(************************ program constants ********************************)
\* len(svg) > 1_500_000 is answered 413
SvgCap == 1500000
\* secrets.token_urlsafe(7)
TokenBytes == 7
\* [:10]
CodeMax == 10
\* for _ in range(3)
Attempts == 3

(*************************** Python values *********************************)
None == [t |-> "None"]
Str(s) == [t |-> "str", s |-> s, fill |-> 0]
\* the text s followed by n more non-blank characters
LongStr(s, n) == [t |-> "str", s |-> s, fill |-> n]
Num(n) == [t |-> "num", n |-> n]
Bool(b) == [t |-> "bool", b |-> b]
List(l) == [t |-> "list", l |-> l]
\* a dict: d is a function from its keys to their values
Dict(d) == [t |-> "dict", d |-> d]
EmptyDict == Dict(<<>>)

\* len(v) of a str, a list or a dict
PyLen(v) ==
  CASE v.t = "str" -> Len(v.s) + v.fill
    [] v.t = "list" -> Len(v.l)
    [] v.t = "dict" -> Cardinality(DOMAIN v.d)

\* whether len(v) raises TypeError
HasLen(v) == v.t \in {"str", "list", "dict"}

\* bool(v)
Truthy(v) ==
  CASE v.t = "None" -> FALSE
    [] v.t = "num" -> v.n # 0
    [] v.t = "bool" -> v.b
    [] OTHER -> PyLen(v) > 0

\* a or b
PyOr(a, b) == IF Truthy(a) THEN a ELSE b

\* d.get(k)
Get(d, k) == IF k \in DOMAIN d.d THEN d.d[k] ELSE None

Whitespace == {" ", "\t", "\n"}

RECURSIVE LStrip(_)
LStrip(s) ==
  IF s # <<>> /\ Head(s) \in Whitespace THEN LStrip(Tail(s)) ELSE s

RECURSIVE RStrip(_)
RStrip(s) ==
  IF s # <<>> /\ s[Len(s)] \in Whitespace
  THEN RStrip(SubSeq(s, 1, Len(s) - 1))
  ELSE s

\* v.strip() of a str v; the fill characters are not blank
Strip(v) ==
  IF v.fill > 0
  THEN LongStr(LStrip(v.s), v.fill)
  ELSE Str(LStrip(RStrip(v.s)))

(**************************** generate_code ********************************)
\* the alphabet of base64.urlsafe_b64encode
B64Alphabet ==
  << "A", "B", "C", "D", "E", "F", "G", "H", "I", "J", "K", "L", "M",
     "N", "O", "P", "Q", "R", "S", "T", "U", "V", "W", "X", "Y", "Z",
     "a", "b", "c", "d", "e", "f", "g", "h", "i", "j", "k", "l", "m",
     "n", "o", "p", "q", "r", "s", "t", "u", "v", "w", "x", "y", "z",
     "0", "1", "2", "3", "4", "5", "6", "7", "8", "9", "-", "_" >>

B64Char(n) == B64Alphabet[n + 1]

\* base64 of a byte string, the '=' padding stripped
RECURSIVE B64NoPad(_)
B64NoPad(b) ==
  IF Len(b) = 0 THEN <<>>
  ELSE IF Len(b) = 1 THEN
    << B64Char(b[1] \div 4), B64Char((b[1] % 4) * 16) >>
  ELSE IF Len(b) = 2 THEN
    << B64Char(b[1] \div 4),
       B64Char((b[1] % 4) * 16 + b[2] \div 16),
       B64Char((b[2] % 16) * 4) >>
  ELSE
    << B64Char(b[1] \div 4),
       B64Char((b[1] % 4) * 16 + b[2] \div 16),
       B64Char((b[2] % 16) * 4 + b[3] \div 64),
       B64Char(b[3] % 64) >> \o B64NoPad(SubSeq(b, 4, Len(b)))

\* secrets.token_urlsafe(nbytes), rnd being what token_bytes returns
TokenUrlsafe(rnd, nbytes) == B64NoPad(SubSeq(rnd, 1, nbytes))

\* s.replace(c, '') for a one-character c
RECURSIVE Remove(_, _)
Remove(s, c) ==
  IF s = <<>> THEN <<>>
  ELSE IF Head(s) = c THEN Remove(Tail(s), c)
  ELSE <<Head(s)>> \o Remove(Tail(s), c)

\* s[:n]
Prefix(s, n) == SubSeq(s, 1, IF Len(s) < n THEN Len(s) ELSE n)

\* mutant: secrets.token_urlsafe(6)
generate_code_6(rnd) ==
  Str(Prefix(Remove(Remove(TokenUrlsafe(rnd, TokenBytes - 1), "-"), "_"),
             CodeMax))

\* generate_code() when the random source yields the bytes rnd
generate_code(rnd) ==
  Str(Prefix(Remove(Remove(TokenUrlsafe(rnd, TokenBytes), "-"), "_"), CodeMax))

(************************* str(state) **************************************)
Digit(n) == <<"0", "1", "2", "3", "4", "5", "6", "7", "8", "9">>[n + 1]

RECURSIVE Decimal(_)
Decimal(n) ==
  IF n < 0 THEN <<"-">> \o Decimal(0 - n)
  ELSE IF n < 10 THEN <<Digit(n)>>
  ELSE Decimal(n \div 10) \o <<Digit(n % 10)>>

\* repr(v) of None, a bool, an int, or a list of these
RECURSIVE Repr(_)
RECURSIVE ReprJoin(_)
ReprJoin(l) ==
  IF l = <<>> THEN <<>>
  ELSE IF Len(l) = 1 THEN Repr(l[1])
  ELSE Repr(l[1]) \o <<",", " ">> \o ReprJoin(Tail(l))
Repr(v) ==
  CASE v.t = "None" -> <<"N", "o", "n", "e">>
    [] v.t = "bool" -> IF v.b THEN <<"T", "r", "u", "e">>
                              ELSE <<"F", "a", "l", "s", "e">>
    [] v.t = "num" -> Decimal(v.n)
    [] v.t = "list" -> <<"[">> \o ReprJoin(v.l) \o <<"]">>
    [] v.t = "dict" /\ DOMAIN v.d = {} -> <<"{", "}">>

\* str(v): a str is itself, anything else its repr
PyStr(v) == IF v.t = "str" THEN v ELSE Str(Repr(v))

\* mutant: str(state) if state else None
StateJsonFalsyNull(state) == IF Truthy(state) THEN PyStr(state) ELSE None

\* line 108: (state if isinstance(state, str) else None)
\*           or (None if state is None else str(state))
StateJson(state) ==
  PyOr(IF state.t = "str" THEN state ELSE None,
       IF state = None THEN None ELSE PyStr(state))

(************************** configuration **********************************)
Star == Str(<<"*">>)
Empty == Str(<<>>)

(******************************* state *************************************)
VARIABLES
  config,   \* app.config: ALLOWED_ORIGIN, ADMIN_USER, ADMIN_PASS
  designs,  \* the committed rows of the designs table, in insertion order
  clock,    \* what datetime.utcnow returns
  pc,       \* per worker: "idle", "query", "commit" or "done"
  req,      \* per worker: the request it is handling, or None
  loc,      \* per worker: the locals of save_design once its session is open
  resp,     \* per worker: the response it has returned, or None
  issued    \* the 200 answers of save_design so far, with their requests

vars == <<config, designs, clock, pc, req, loc, resp, issued>>

Workers == 1..NumWorkers

(***************************** the table ***********************************)
\* mutant: the query forgets its filter
FindFirst(rows, code) == IF rows = <<>> THEN None ELSE rows[1]

\* session.query(Design).filter_by(code=code).first()
FindByCode(rows, code) ==
  LET hits == {i \in 1..Len(rows) : rows[i].code = code}
  IN IF hits = {} THEN None
     ELSE rows[CHOOSE i \in hits : \A j \in hits : i <= j]

\* mutant: the column is declared without unique=True
NoUniqueIndex(rows, code) == FALSE

\* unique=True on Design.code: the insert of a row with this code is refused
UniqueViolation(rows, code) == \E i \in 1..Len(rows) : rows[i].code = code

\* Design(...) as the insert stores it: id by the primary key, created_at
\* by default=datetime.utcnow
NewDesign(rows, now, code, product_id, svg, state_json) ==
  [ id |-> Len(rows) + 1,
    code |-> code,
    product_id |-> product_id,
    svg |-> svg,
    state_json |-> state_json,
    created_at |-> now ]

(***************************** responses ***********************************)
NoHeaders == <<>>

\* resp.headers[k] = v
SetHeader(h, k, v) ==
  [x \in DOMAIN h \cup {k} |-> IF x = k THEN v ELSE h[x]]

Response(status, body, headers, session) ==
  [status |-> status, body |-> body, headers |-> headers, session |-> session]

\* what Flask answers when the handler raises exc
ServerError(session, exc) ==
  Response(500, [text |-> "Internal Server Error", raised |-> exc],
           NoHeaders, session)

\* mutant: the wildcard is not honoured, only an exact match is
cors_ok_exact_only(r, origin) ==
  IF Truthy(origin) /\ origin = config.ALLOWED_ORIGIN
  THEN [r EXCEPT !.headers =
          SetHeader(
            SetHeader(
              SetHeader(@, "Access-Control-Allow-Origin", origin),
              "Vary", "Origin"),
            "Access-Control-Allow-Credentials", "true")]
  ELSE r

\* mutant: the origin of the request is echoed whatever is configured
cors_ok_any_origin(r, origin) ==
  [r EXCEPT !.headers =
     SetHeader(
       SetHeader(
         SetHeader(@, "Access-Control-Allow-Origin",
                   IF Truthy(origin) THEN origin ELSE Star),
         "Vary", "Origin"),
       "Access-Control-Allow-Credentials", "true")]

\* cors_ok(resp) for a request with this Origin header
cors_ok(r, origin) ==
  LET allowed == config.ALLOWED_ORIGIN
  IN IF allowed = Star \/ (Truthy(origin) /\ origin = allowed)
     THEN [r EXCEPT !.headers =
             SetHeader(
               SetHeader(
                 SetHeader(@, "Access-Control-Allow-Origin",
                           IF Truthy(origin) THEN origin ELSE Star),
                 "Vary", "Origin"),
               "Access-Control-Allow-Credentials", "true")]
     ELSE r

\* mutant: the password is not compared
require_basic_auth_user_only(auth) ==
  /\ Truthy(config.ADMIN_USER)
  /\ Truthy(config.ADMIN_PASS)
  /\ auth # None
  /\ auth.username = config.ADMIN_USER

\* require_basic_auth() for a request with this Authorization
require_basic_auth(auth) ==
  /\ Truthy(config.ADMIN_USER)
  /\ Truthy(config.ADMIN_PASS)
  /\ auth # None
  /\ auth.username = config.ADMIN_USER
  /\ auth.password = config.ADMIN_PASS


(**************************** the handlers *********************************)
\* a request: the fields a handler does not read are None
Request(method, route, origin, body, code, auth) ==
  [ method |-> method, route |-> route, origin |-> origin,
    body |-> body, code |-> code, auth |-> auth ]

\* the worker returns rsp for the request r
Return(w, r, rsp) ==
  /\ pc' = [pc EXCEPT ![w] = "done"]
  /\ req' = [req EXCEPT ![w] = r]
  /\ resp' = [resp EXCEPT ![w] = rsp]
  /\ loc' = [loc EXCEPT ![w] = None]

\* the submissions that hold a session or are about to
InFlight == {w \in Workers : pc[w] \in {"query", "commit"}}

\* lines 84-87, up to the point where they raise: request.get_json(silent=True)
\* is the body, or None when the body is not JSON
JsonData(r) == PyOr(r.body, EmptyDict)
DataRaises(r) == JsonData(r).t # "dict"
RawProductId(r) == PyOr(Get(JsonData(r), "productId"), Empty)
ProductIdRaises(r) == RawProductId(r).t # "str"
ProductId(r) == Strip(RawProductId(r))
Svg(r) == PyOr(Get(JsonData(r), "svg"), Empty)
State(r) == Get(JsonData(r), "state")

\* mutant: if origin and origin != allowed
OriginRefusedIfPresent(r) ==
  config.ALLOWED_ORIGIN # Star /\ Truthy(r.origin)
  /\ r.origin # config.ALLOWED_ORIGIN

\* lines 78-82: the origin of the request is refused
OriginRefused(r) ==
  config.ALLOWED_ORIGIN # Star /\ r.origin # config.ALLOWED_ORIGIN

\* line 89
FieldsMissing(r) == ~Truthy(ProductId(r)) \/ ~Truthy(Svg(r))

\* mutant: len(svg) >= 1_500_000
TooLargeAtCap(r) == PyLen(Svg(r)) >= SvgCap

\* line 91
TooLarge(r) == PyLen(Svg(r)) > SvgCap

\* save_design, lines 70-97: the preflight, the checks, and for a request that
\* passes them the session and the first candidate code
SaveDesign(w, r, rnd) ==
  /\ pc[w] = "idle"
  /\ r.route = "/api/designs"
  /\ r.method \in {"OPTIONS", "POST"}
  /\ r.method = "POST" => Len(designs) + Cardinality(InFlight) < MaxDesigns
  /\ UNCHANGED <<config, designs, clock, issued>>
  /\ IF r.method = "OPTIONS" THEN
       Return(w, r, cors_ok(
         Response(204, [text |-> ""],
           SetHeader(
             SetHeader(NoHeaders, "Access-Control-Allow-Methods", "POST, OPTIONS"),
             "Access-Control-Allow-Headers", "Content-Type, Authorization"),
           "none"),
         r.origin))
     ELSE IF OriginRefused(r) THEN
       Return(w, r, Response(403, [error |-> "Origin not allowed"],
                             NoHeaders, "none"))
     ELSE IF DataRaises(r) \/ ProductIdRaises(r) THEN
       Return(w, r, ServerError("none", "AttributeError"))
     ELSE IF FieldsMissing(r) THEN
       Return(w, r, cors_ok(
         Response(400, [error |-> "productId and svg are required"],
                  NoHeaders, "none"),
         r.origin))
     ELSE IF ~HasLen(Svg(r)) THEN
       Return(w, r, ServerError("none", "TypeError"))
     ELSE IF TooLarge(r) THEN
       Return(w, r, cors_ok(
         Response(413, [error |-> "SVG too large"], NoHeaders, "none"),
         r.origin))
     ELSE
       /\ pc' = [pc EXCEPT ![w] = "query"]
       /\ req' = [req EXCEPT ![w] = r]
       /\ loc' = [loc EXCEPT ![w] =
                    [ product_id |-> ProductId(r),
                      svg |-> Svg(r),
                      state |-> State(r),
                      code |-> generate_code(rnd),
                      i |-> 0,
                      generated |-> 1,
                      queried |-> 0 ]]
       /\ UNCHANGED resp

\* mutant: range(4)
LoopGoesOnOneMore(i) == i + 1 < Attempts + 1

\* whether the loop of lines 99-102 goes on after its pass i
LoopGoesOn(i) == i + 1 < Attempts

\* save_design, lines 99-102: one pass of the loop
Query(w, rnd) ==
  /\ pc[w] = "query"
  /\ UNCHANGED <<config, designs, clock, req, resp, issued>>
  /\ IF FindByCode(designs, loc[w].code) = None
     THEN /\ pc' = [pc EXCEPT ![w] = "commit"]
          /\ loc' = [loc EXCEPT ![w].queried = @ + 1]
     ELSE /\ pc' = [pc EXCEPT ![w] =
                      IF LoopGoesOn(loc[w].i) THEN "query" ELSE "commit"]
          /\ loc' = [loc EXCEPT ![w].code = generate_code(rnd),
                                ![w].i = @ + 1,
                                ![w].generated = @ + 1,
                                ![w].queried = @ + 1]

\* mutant: the answer is built and returned although the commit raised
CommitSwallows(w) ==
  /\ pc[w] = "commit"
  /\ UNCHANGED <<config, clock>>
  /\ IF loc[w].svg.t = "str" /\ ~UniqueViolation(designs, loc[w].code)
     THEN designs' = Append(designs,
                       NewDesign(designs, clock, loc[w].code,
                                 loc[w].product_id, loc[w].svg,
                                 StateJson(loc[w].state)))
     ELSE designs' = designs
  /\ issued' = Append(issued, [ code |-> loc[w].code, req |-> req[w],
                                collisions |-> loc[w].i ])
  /\ Return(w, req[w], cors_ok(
       Response(200, [code |-> loc[w].code], NoHeaders, "closed"),
       req[w].origin))

\* mutant: a refused insert sends the submission back to the lookup loop
CommitRetries(w) ==
  /\ pc[w] = "commit"
  /\ UNCHANGED <<config, clock>>
  /\ IF UniqueViolation(designs, loc[w].code) THEN
       /\ pc' = [pc EXCEPT ![w] = "query"]
       /\ loc' = [loc EXCEPT ![w].i = 0, ![w].queried = 0]
       /\ UNCHANGED <<designs, issued, req, resp>>
     ELSE /\ designs' = Append(designs,
                          NewDesign(designs, clock, loc[w].code,
                                    loc[w].product_id, loc[w].svg,
                                    StateJson(loc[w].state)))
          /\ issued' = Append(issued, [ code |-> loc[w].code, req |-> req[w],
                                         collisions |-> loc[w].i ])
          /\ Return(w, req[w], cors_ok(
               Response(200, [code |-> loc[w].code], NoHeaders, "closed"),
               req[w].origin))

\* mutant: the insert of a code that is stored replaces its row
CommitUpserts(w) ==
  /\ pc[w] = "commit"
  /\ UNCHANGED <<config, clock>>
  /\ LET row == NewDesign(designs, clock, loc[w].code, loc[w].product_id,
                          loc[w].svg, StateJson(loc[w].state))
     IN designs' =
          IF UniqueViolation(designs, loc[w].code)
          THEN [i \in 1..Len(designs) |->
                  IF designs[i].code = loc[w].code THEN row ELSE designs[i]]
          ELSE Append(designs, row)
  /\ issued' = Append(issued, [ code |-> loc[w].code, req |-> req[w],
                                 collisions |-> loc[w].i ])
  /\ Return(w, req[w], cors_ok(
       Response(200, [code |-> loc[w].code], NoHeaders, "closed"),
       req[w].origin))

\* save_design, lines 104-115: the insert, the commit and the answer
Commit(w) ==
  /\ pc[w] = "commit"
  /\ UNCHANGED <<config, clock>>
  /\ IF loc[w].svg.t # "str" THEN
       /\ Return(w, req[w], ServerError("closed", "StatementError"))
       /\ UNCHANGED <<designs, issued>>
     ELSE IF UniqueViolation(designs, loc[w].code) THEN
       /\ Return(w, req[w], ServerError("closed", "IntegrityError"))
       /\ UNCHANGED <<designs, issued>>
     ELSE /\ designs' = Append(designs,
                          NewDesign(designs, clock, loc[w].code,
                                    loc[w].product_id, loc[w].svg,
                                    StateJson(loc[w].state)))
          /\ issued' = Append(issued, [ code |-> loc[w].code, req |-> req[w],
                                         collisions |-> loc[w].i ])
          /\ Return(w, req[w], cors_ok(
               Response(200, [code |-> loc[w].code], NoHeaders, "closed"),
               req[w].origin))

\* mutant: the row is written before the commit raises, and stays
StorageErrorKeepsRow(w) ==
  /\ pc[w] \in {"query", "commit"}
  /\ Return(w, req[w], ServerError("closed", "OperationalError"))
  /\ designs' = Append(designs,
                   NewDesign(designs, clock, loc[w].code, loc[w].product_id,
                             loc[w].svg, StateJson(loc[w].state)))
  /\ UNCHANGED <<config, clock, issued>>

\* the storage engine fails a query or the commit of save_design: the
\* exception leaves the handler through finally
StorageError(w) ==
  /\ pc[w] \in {"query", "commit"}
  /\ Return(w, req[w], ServerError("closed", "OperationalError"))
  /\ UNCHANGED <<config, designs, clock, issued>>

\* line 133
IsAlnum(c) == \E n \in 1..62 : B64Alphabet[n] = c
Lower(c) ==
  IF \E n \in 1..26 : B64Alphabet[n] = c
  THEN B64Alphabet[26 + CHOOSE n \in 1..26 : B64Alphabet[n] = c]
  ELSE c

RECURSIVE LStripDash(_)
LStripDash(s) == IF s # <<>> /\ Head(s) = "-" THEN LStripDash(Tail(s)) ELSE s

RECURSIVE RStripDash(_)
RStripDash(s) ==
  IF s # <<>> /\ s[Len(s)] = "-"
  THEN RStripDash(SubSeq(s, 1, Len(s) - 1))
  ELSE s

DefaultName == Str(<<"d", "e", "s", "i", "g", "n">>)

\* line 133: every character that is not alphanumeric becomes '-', the '-'
\* at both ends are stripped, and the rest is lowercased
safe_name(product_id) ==
  LET p == PyOr(product_id, DefaultName)
      dashed == [k \in 1..Len(p.s) |-> IF IsAlnum(p.s[k]) THEN p.s[k] ELSE "-"]
      stripped == LStripDash(RStripDash(dashed))
  IN Str([k \in 1..Len(stripped) |-> Lower(stripped[k])])

\* lines 134-165: the page of a design
Page(code, design) ==
  [ html |->
      [ title_code |-> code,
        product |-> design.product_id,
        created |-> design.created_at,
        svg_data_url |-> [base64_of |-> design.svg],
        download |-> Str(safe_name(design.product_id).s \o <<"-">>
                           \o code.s \o <<".", "s", "v", "g">>) ] ]

\* mutant: the gate is up as soon as one credential is configured
GateConfiguredEither ==
  Truthy(config.ADMIN_USER) \/ Truthy(config.ADMIN_PASS)

\* line 120: if app.config['ADMIN_USER'] and app.config['ADMIN_PASS']
GateConfigured ==
  Truthy(config.ADMIN_USER) /\ Truthy(config.ADMIN_PASS)

\* mutant: an unknown code is answered with an empty page
NotFoundAsEmptyPage == Response(200, [text |-> ""], NoHeaders, "closed")

\* line 130: return Response('Code not found', 404), through finally
NotFound == Response(404, [text |-> "Code not found"], NoHeaders, "closed")

\* mutant: the row is looked up before the credentials are checked
ViewDesignLookupFirst(w, r) ==
  /\ pc[w] = "idle"
  /\ r.route = "/d/<code>"
  /\ r.method = "GET"
  /\ UNCHANGED <<config, designs, clock, issued>>
  /\ LET design == FindByCode(designs, r.code)
     IN IF design = None
        THEN Return(w, r, NotFound)
        ELSE IF GateConfigured /\ ~require_basic_auth(r.auth)
        THEN Return(w, r, Response(401, [text |-> "Authentication required"],
                      SetHeader(NoHeaders, "WWW-Authenticate",
                                "Basic realm=\"Designs\""),
                      "closed"))
        ELSE Return(w, r, Response(200, Page(r.code, design),
                                   NoHeaders, "closed"))

\* view_design, lines 118-167
ViewDesign(w, r) ==
  /\ pc[w] = "idle"
  /\ r.route = "/d/<code>"
  /\ r.method = "GET"
  /\ UNCHANGED <<config, designs, clock, issued>>
  /\ IF GateConfigured /\ ~require_basic_auth(r.auth)
     THEN Return(w, r, Response(401, [text |-> "Authentication required"],
                   SetHeader(NoHeaders, "WWW-Authenticate",
                             "Basic realm=\"Designs\""),
                   "none"))
     ELSE LET design == FindByCode(designs, r.code)
          IN IF design = None
             THEN Return(w, r, NotFound)
             ELSE Return(w, r, Response(200, Page(r.code, design),
                                        NoHeaders, "closed"))

\* healthz, lines 169-171
Healthz(w, r) ==
  /\ pc[w] = "idle"
  /\ r.route = "/healthz"
  /\ Return(w, r, Response(200, [text |-> "ok"], NoHeaders, "none"))
  /\ UNCHANGED <<config, designs, clock, issued>>

\* the response has gone out and the worker takes the next request
Finish(w) ==
  /\ pc[w] = "done"
  /\ pc' = [pc EXCEPT ![w] = "idle"]
  /\ req' = [req EXCEPT ![w] = None]
  /\ resp' = [resp EXCEPT ![w] = None]
  /\ UNCHANGED <<config, designs, clock, loc, issued>>

\* time passes
Tick ==
  /\ clock < MaxClock
  /\ clock' = clock + 1
  /\ UNCHANGED <<config, designs, pc, req, loc, resp, issued>>


\* mutant: view_design without its finally clause
ViewDesignStorageErrorLeaks(w, r) ==
  /\ pc[w] = "idle"
  /\ r.route = "/d/<code>"
  /\ r.method = "GET"
  /\ ~(GateConfigured /\ ~require_basic_auth(r.auth))
  /\ Return(w, r, ServerError("open", "OperationalError"))
  /\ UNCHANGED <<config, designs, clock, issued>>

\* the storage engine fails the query of view_design, behind the gate
ViewDesignStorageError(w, r) ==
  /\ pc[w] = "idle"
  /\ r.route = "/d/<code>"
  /\ r.method = "GET"
  /\ ~(GateConfigured /\ ~require_basic_auth(r.auth))
  /\ Return(w, r, ServerError("closed", "OperationalError"))
  /\ UNCHANGED <<config, designs, clock, issued>>

(***************************** the inputs **********************************)
GoodOrigin == Str(<<"h", "t", "t", "p", ":", "/", "/", "a">>)
EvilOrigin == Str(<<"h", "t", "t", "p", ":", "/", "/", "b">>)
AdminUser == Str(<<"a", "d", "m", "i", "n">>)
AdminPass == Str(<<"p", "w">>)

Config(allowed, user, pass) ==
  [ALLOWED_ORIGIN |-> allowed, ADMIN_USER |-> user, ADMIN_PASS |-> pass]

Basic(user, pass) == [t |-> "Authorization", username |-> user, password |-> pass]

\* a JSON object with these members; a member that is Absent is left out
Absent == [t |-> "absent"]
Body(productId, svg, state) ==
  LET all == [k \in {"productId", "svg", "state"} |->
                IF k = "productId" THEN productId
                ELSE IF k = "svg" THEN svg ELSE state]
  IN Dict([k \in {x \in DOMAIN all : all[x] # Absent} |-> all[k]])

Post(origin, body) == Request("POST", "/api/designs", origin, body, None, None)
Options(origin) == Request("OPTIONS", "/api/designs", origin, None, None, None)
View(code, auth) == Request("GET", "/d/<code>", None, None, code, auth)
Health == Request("GET", "/healthz", None, None, None, None)

\* what the random source returns
RndZeros == <<0, 0, 0, 0, 0, 0, 0>>
RndOnes == <<255, 255, 255, 255, 255, 255, 255>>
RndMixed == <<1, 2, 3, 4, 5, 6, 7>>

SmallSvg == Str(<<"<", "a", ">">>)
CapSvg == LongStr(<<"<", "b", ">">>, SvgCap - 3)
OverCapSvg == LongStr(<<"<", "b", ">">>, SvgCap - 2)
PlainId == Str(<<"p", "1">>)
PaddedId == Str(<<" ", "Q", "-", "2", " ">>)
BlankId == Str(<<" ", "\t">>)

(************************ concurrent submissions ***************************)
SpecConfigs == {Config(GoodOrigin, AdminUser, AdminPass)}
SpecRnds == {RndZeros, RndOnes}
ConcurrentRnds == {RndZeros, RndOnes, RndMixed}
SpecPosts ==
  { Post(GoodOrigin, Body(PaddedId, CapSvg, Absent)),
    Post(EvilOrigin, Body(PlainId, SmallSvg, Absent)),
    Post(GoodOrigin, Body(PlainId, Absent, Absent)),
    Post(GoodOrigin, Body(PlainId, OverCapSvg, Absent)) }

Init ==
  /\ config \in SpecConfigs
  /\ designs = <<>>
  /\ clock = 0
  /\ pc = [w \in Workers |-> "idle"]
  /\ req = [w \in Workers |-> None]
  /\ loc = [w \in Workers |-> None]
  /\ resp = [w \in Workers |-> None]
  /\ issued = <<>>

Next ==
  \/ \E w \in Workers, r \in SpecPosts, rnd \in ConcurrentRnds :
       SaveDesign(w, r, rnd)
  \/ \E w \in Workers, rnd \in ConcurrentRnds : Query(w, rnd)
  \/ \E w \in Workers : Commit(w)
  \/ \E w \in Workers : StorageError(w)
  \/ \E w \in Workers : Finish(w)

Spec == Init /\ [][Next]_vars

(********************* one submission after another ************************)
\* the worker that takes the requests when they come one at a time
Sequential == CHOOSE w \in Workers : \A v \in Workers : w <= v

ValConfigs == {Config(Star, Empty, Empty), Config(GoodOrigin, Empty, Empty)}
ValOrigins == {None, Empty, GoodOrigin, EvilOrigin}
ValProductIds == {Absent, None, Empty, BlankId, PlainId, PaddedId, Num(5)}
ValSvgs == {Absent, Empty, CapSvg, OverCapSvg, Num(7), List(<<Num(1)>>)}
ValBodies ==
  {Body(p, v, Absent) : p \in ValProductIds, v \in ValSvgs}
    \cup {None, List(<<Num(1)>>)}
ValPosts == {Post(o, b) : o \in ValOrigins, b \in ValBodies}
ValRequests == ValPosts \cup {Options(o) : o \in ValOrigins}

InitValidate ==
  /\ config \in ValConfigs
  /\ designs = <<>>
  /\ clock = 0
  /\ pc = [w \in Workers |-> "idle"]
  /\ req = [w \in Workers |-> None]
  /\ loc = [w \in Workers |-> None]
  /\ resp = [w \in Workers |-> None]
  /\ issued = <<>>

NextValidate ==
  \/ \E r \in ValRequests, rnd \in SpecRnds : SaveDesign(Sequential, r, rnd)
  \/ \E rnd \in SpecRnds : Query(Sequential, rnd)
  \/ Commit(Sequential)
  \/ StorageError(Sequential)
  \/ Finish(Sequential)

SpecValidate == InitValidate /\ [][NextValidate]_vars

(************** retrieval under every credential configuration *************)
WrongUser == Str(<<"A", "d", "m", "i", "n">>)
WrongPass == Str(<<"p", "w", " ">>)
UnknownCode == Str(<<"z", "z">>)

AuthConfigs ==
  {Config(Star, u, p) : u \in {Empty, AdminUser}, p \in {Empty, AdminPass}}
AuthPosts ==
  { Post(None, Body(PlainId, SmallSvg, Absent)),
    Post(GoodOrigin, Body(PaddedId, CapSvg, Absent)) }
AuthCredentials ==
  {None}
    \cup {Basic(u, p) : u \in {AdminUser, WrongUser, Empty},
                        p \in {AdminPass, WrongPass, Empty}}
AuthViews ==
  { View(c, a) :
      c \in {generate_code(RndZeros), generate_code(RndOnes), UnknownCode},
      a \in AuthCredentials }

InitAuth ==
  /\ config \in AuthConfigs
  /\ designs = <<>>
  /\ clock = 0
  /\ pc = [w \in Workers |-> "idle"]
  /\ req = [w \in Workers |-> None]
  /\ loc = [w \in Workers |-> None]
  /\ resp = [w \in Workers |-> None]
  /\ issued = <<>>

NextAuth ==
  \/ \E r \in AuthPosts, rnd \in SpecRnds : SaveDesign(Sequential, r, rnd)
  \/ \E rnd \in SpecRnds : Query(Sequential, rnd)
  \/ Commit(Sequential)
  \/ StorageError(Sequential)
  \/ \E r \in AuthViews : ViewDesign(Sequential, r)
  \/ \E r \in AuthViews : ViewDesignStorageError(Sequential, r)
  \/ Healthz(Sequential, Health)
  \/ Finish(Sequential)
  \/ Tick

SpecAuth == InitAuth /\ [][NextAuth]_vars

(*************************** the code generator ****************************)
\* what the random source returns: k bytes of 255 and then zeros, for every
\* k, the four bytes that differ only in the two bits the last character of
\* the token is made of, a token of '-' alone and a token without '-' or '_'
GenRnds ==
  { [n \in 1..TokenBytes |-> IF n <= k THEN 255 ELSE 0] : k \in 0..TokenBytes }
    \cup { [n \in 1..TokenBytes |-> IF n < TokenBytes THEN 255 ELSE b] :
             b \in {252, 253, 254} }
    \cup { <<251, 239, 190, 251, 239, 190, 251>>, <<1, 2, 3, 4, 5, 6, 7>> }

GenPosts == {Post(None, Body(PlainId, SmallSvg, Absent))}

InitGen ==
  /\ config = Config(Star, Empty, Empty)
  /\ designs = <<>>
  /\ clock = 0
  /\ pc = [w \in Workers |-> "idle"]
  /\ req = [w \in Workers |-> None]
  /\ loc = [w \in Workers |-> None]
  /\ resp = [w \in Workers |-> None]
  /\ issued = <<>>

NextGen ==
  \/ \E r \in GenPosts, rnd \in GenRnds : SaveDesign(Sequential, r, rnd)
  \/ \E rnd \in GenRnds : Query(Sequential, rnd)
  \/ Commit(Sequential)
  \/ StorageError(Sequential)
  \/ Finish(Sequential)

SpecGen == InitGen /\ [][NextGen]_vars

(****************** what is stored and what the page shows *****************)
PunctId == Str(<<"!", "!">>)
RunId == Str(<<"a", ",", " ", "b">>)
UpperId == Str(<<"A", "b">>)

StoredProductIds == {PlainId, PaddedId, PunctId, RunId, UpperId}
StoredStates ==
  { Absent, None, Empty, Str(<<"s">>), Num(0), Num(12), Bool(FALSE),
    List(<<>>), List(<<Num(1), None>>), EmptyDict }
StoredPosts ==
  {Post(None, Body(p, SmallSvg, Absent)) : p \in StoredProductIds}
    \cup {Post(None, Body(PlainId, SmallSvg, st)) : st \in StoredStates}
StoredViews ==
  { View(c, None) :
      c \in {generate_code(RndZeros), generate_code(RndOnes), UnknownCode} }

InitStored ==
  /\ config = Config(Star, Empty, Empty)
  /\ designs = <<>>
  /\ clock = 0
  /\ pc = [w \in Workers |-> "idle"]
  /\ req = [w \in Workers |-> None]
  /\ loc = [w \in Workers |-> None]
  /\ resp = [w \in Workers |-> None]
  /\ issued = <<>>

NextStored ==
  \/ \E r \in StoredPosts, rnd \in SpecRnds : SaveDesign(Sequential, r, rnd)
  \/ \E rnd \in SpecRnds : Query(Sequential, rnd)
  \/ Commit(Sequential)
  \/ StorageError(Sequential)
  \/ \E r \in StoredViews : ViewDesign(Sequential, r)
  \/ Finish(Sequential)

SpecStored == InitStored /\ [][NextStored]_vars

(************************** the whole service ******************************)
ServiceConfigs == {Config(GoodOrigin, AdminUser, AdminPass)}
ServicePosts ==
  SpecPosts \cup {Post(GoodOrigin, Body(PlainId, SmallSvg, Num(0)))}
ServiceOptions == {Options(GoodOrigin), Options(EvilOrigin)}
ServiceViews ==
  { View(c, a) : c \in {generate_code(RndZeros), UnknownCode},
                 a \in {None, Basic(AdminUser, AdminPass)} }

InitService ==
  /\ config \in ServiceConfigs
  /\ designs = <<>>
  /\ clock = 0
  /\ pc = [w \in Workers |-> "idle"]
  /\ req = [w \in Workers |-> None]
  /\ loc = [w \in Workers |-> None]
  /\ resp = [w \in Workers |-> None]
  /\ issued = <<>>

NextService ==
  \/ \E r \in ServicePosts \cup ServiceOptions, rnd \in SpecRnds :
       SaveDesign(Sequential, r, rnd)
  \/ \E rnd \in SpecRnds : Query(Sequential, rnd)
  \/ Commit(Sequential)
  \/ StorageError(Sequential)
  \/ \E r \in ServiceViews : ViewDesign(Sequential, r)
  \/ \E r \in ServiceViews : ViewDesignStorageError(Sequential, r)
  \/ Healthz(Sequential, Health)
  \/ Finish(Sequential)
  \/ Tick

SpecService == InitService /\ [][NextService]_vars

(******************************* claims ************************************)
SubmitDone(w) ==
  pc[w] = "done" /\ req[w].method = "POST" /\ req[w].route = "/api/designs"
ViewDone(w) ==
  pc[w] = "done" /\ req[w].method = "GET" /\ req[w].route = "/d/<code>"

\* the members of the submitted JSON object
Submitted(r, k) == Get(r.body, k)

\* what a claim calls a member of the submitted body: None when the body is
\* not a JSON object or has no such member
Member(r, k) == IF r.body.t = "dict" THEN Get(r.body, k) ELSE None

OriginMatches(r) ==
  config.ALLOWED_ORIGIN = Star \/ r.origin = config.ALLOWED_ORIGIN

ProductIdBlank(r) ==
  LET p == Member(r, "productId")
  IN p = None \/ (p.t = "str" /\ Strip(p) = Empty)

SvgEmpty(r) == Member(r, "svg") \in {None, Empty}

\* a body with a productId that is not blank and an svg of 1 to 1,500,000
\* characters
ValidBody(r) ==
  LET p == Member(r, "productId")
      v == Member(r, "svg")
  IN /\ p.t = "str" /\ Strip(p) # Empty
     /\ v.t = "str" /\ PyLen(v) >= 1 /\ PyLen(v) <= SvgCap

StorageRaised(rsp) ==
  rsp.status = 500
  /\ rsp.body.raised \in {"IntegrityError", "OperationalError"}

\* the characters a URL may carry unescaped
UrlSafeChars == {B64Alphabet[n] : n \in 1..64} \cup {".", "~"}

WellFormedCode(c) ==
  /\ c.t = "str" /\ c.fill = 0
  /\ Len(c.s) >= 1 /\ Len(c.s) <= 10
  /\ \A n \in 1..Len(c.s) : c.s[n] \in UrlSafeChars

\* C1: in every reachable state, whatever the interleaving of the
\* submissions and whatever candidates they drew, no two rows of the designs
\* table have the same code.
C1_CodesUnique ==
  \A i, j \in 1..Len(designs) :
    designs[i].code = designs[j].code => i = j

\* C1 witness: two submissions hold the same candidate, both found it unused,
\* one has committed it and the other is about to commit it.
C1_Witness ==
  \E w \in Workers :
    /\ pc[w] = "commit"
    /\ loc[w].i = 0
    /\ UniqueViolation(designs, loc[w].code)

\* C2: no two 200 answers of POST /api/designs carry the same code, neither
\* two answers issued so far nor the answers two workers hold at once, and
\* every 200 answer carries the code of a row that is stored.
C2_AnswersDistinct ==
  /\ \A i, j \in 1..Len(issued) : issued[i].code = issued[j].code => i = j
  /\ \A v, w \in Workers :
       (SubmitDone(v) /\ SubmitDone(w) /\ resp[v].status = 200
        /\ resp[w].status = 200 /\ resp[v].body.code = resp[w].body.code)
       => v = w
  /\ \A w \in Workers :
       (SubmitDone(w) /\ resp[w].status = 200)
       => \E i \in 1..Len(issued) : issued[i].code = resp[w].body.code

\* C2 witness: two submissions were answered 200, and the second had found
\* its first candidate in the store and was given another code.
C2_Witness ==
  /\ Len(issued) = 2
  /\ issued[2].collisions >= 1
  /\ \E w \in Workers : SubmitDone(w) /\ resp[w].status = 200

\* C3 as stated: the page a GET /d/{code} returns for an issued code shows
\* the productId and the svg exactly as they were submitted.
C3_Original ==
  \A w \in Workers : \A i \in 1..Len(issued) :
    (ViewDone(w) /\ resp[w].status = 200 /\ issued[i].code = req[w].code)
    => /\ resp[w].body.html.product = Submitted(issued[i].req, "productId")
       /\ resp[w].body.html.svg_data_url.base64_of
            = Submitted(issued[i].req, "svg")

\* C3 amended: a GET /d/{code} for an issued code that passes the credential
\* gate finds the record (it is never answered 404), and the page shows the
\* submitted productId with its leading and trailing whitespace removed, and
\* the svg exactly as submitted.
C3_RoundTrip ==
  \A w \in Workers : \A i \in 1..Len(issued) :
    (ViewDone(w) /\ issued[i].code = req[w].code)
    => /\ resp[w].status # 404
       /\ resp[w].status = 200
          => /\ resp[w].body.html.product
                  = Strip(Submitted(issued[i].req, "productId"))
             /\ resp[w].body.html.svg_data_url.base64_of
                  = Submitted(issued[i].req, "svg")
             /\ resp[w].body.html.title_code = issued[i].code

\* C3 witness: a submission whose productId had blanks around it was
\* answered 200 and a GET for its code has returned the page.
C3_Witness ==
  \E w \in Workers : \E i \in 1..Len(issued) :
    /\ ViewDone(w) /\ resp[w].status = 200 /\ issued[i].code = req[w].code
    /\ Submitted(issued[i].req, "productId") = PaddedId
    /\ Len(designs) = 2

\* C4: every code generate_code produces, held by a submission, stored in a
\* row or returned in a 200 answer, has 1 to 10 characters, all URL-safe,
\* whatever bytes the random source returned.
C4_CodeShape ==
  /\ \A w \in Workers :
       pc[w] \in {"query", "commit"} => WellFormedCode(loc[w].code)
  /\ \A i \in 1..Len(designs) : WellFormedCode(designs[i].code)
  /\ \A i \in 1..Len(issued) : WellFormedCode(issued[i].code)
  /\ \A w \in Workers :
       (SubmitDone(w) /\ resp[w].status = 200)
       => WellFormedCode(resp[w].body.code)

\* C4 witness: a code of one character, left of a token whose other nine
\* characters were '-' or '_', and a code of ten characters are both stored.
C4_Witness ==
  /\ \E i \in 1..Len(designs) : Len(designs[i].code.s) = 1
  /\ \E i \in 1..Len(designs) : Len(designs[i].code.s) = 10
  /\ \E w \in Workers : SubmitDone(w) /\ resp[w].status = 200

\* the step that takes a POST from another origin: answered 403 at once
C5_Step ==
  \A w \in Workers :
    (/\ pc[w] = "idle" /\ pc'[w] # "idle"
     /\ req'[w].method = "POST"
     /\ config.ALLOWED_ORIGIN # Star
     /\ req'[w].origin # config.ALLOWED_ORIGIN)
    => /\ pc'[w] = "done"
       /\ resp'[w] = Response(403, [error |-> "Origin not allowed"],
                              NoHeaders, "none")
       /\ loc'[w] = None
       /\ designs' = designs
\* the answers of the submissions under a specific allowed origin
C5_Answered ==
  \A w \in Workers :
    (SubmitDone(w) /\ config.ALLOWED_ORIGIN # Star)
    => /\ req[w].origin # config.ALLOWED_ORIGIN => resp[w].status = 403
       /\ (req[w].origin = config.ALLOWED_ORIGIN /\ ValidBody(req[w]))
          => \/ StorageRaised(resp[w])
             \/ /\ resp[w].status = 200
                /\ "Access-Control-Allow-Origin" \in DOMAIN resp[w].headers
                /\ resp[w].headers["Access-Control-Allow-Origin"]
                     = req[w].origin

\* C5: with a specific allowed origin configured, a POST whose Origin is
\* absent or differs is answered 403 at once, whatever its body: no code is
\* generated, no session opened, no row added. A POST from the configured
\* origin with a valid body is answered 200 with that origin in
\* Access-Control-Allow-Origin, unless the storage engine raises.
C5_OriginGate == []C5_Answered /\ [][C5_Step]_vars

\* C5 witness: under a specific allowed origin a valid submission from that
\* origin is stored and answered 200, and a valid one without Origin is
\* then answered 403.
C5_Witness ==
  /\ config.ALLOWED_ORIGIN = GoodOrigin
  /\ Len(issued) = 1 /\ issued[1].req.origin = GoodOrigin
  /\ SubmitDone(Sequential)
  /\ resp[Sequential].status = 403
  /\ req[Sequential].origin = None
  /\ ValidBody(req[Sequential])

\* C6 as stated: a POST that passes the origin check and whose productId is
\* missing or blank, or whose svg is missing or empty, is answered 400 with
\* no session opened, whatever else it carries.
C6_Original ==
  \A w \in Workers :
    (SubmitDone(w) /\ OriginMatches(req[w])
     /\ (ProductIdBlank(req[w]) \/ SvgEmpty(req[w])))
    => resp[w].status = 400 /\ resp[w].session = "none"

\* a productId that is not blank and an svg that is not empty
PassesPresence(r) ==
  LET p == Member(r, "productId")
  IN p.t = "str" /\ Strip(p) # Empty /\ Truthy(Member(r, "svg"))
\* the answers of the submissions that reach the size check
C7_Answered ==
  \A w \in Workers :
    (SubmitDone(w) /\ OriginMatches(req[w]) /\ PassesPresence(req[w]))
    => LET v == Member(req[w], "svg")
       IN /\ resp[w].status = 413 <=> (HasLen(v) /\ PyLen(v) > SvgCap)
          /\ resp[w].status = 413 => resp[w].session = "none"
          /\ (v.t = "str" /\ PyLen(v) <= SvgCap)
             => resp[w].status = 200 \/ StorageRaised(resp[w])
\* the step that answers 413 leaves the table alone
C7_Step ==
  \A w \in Workers :
    (pc[w] # "done" /\ pc'[w] = "done" /\ resp'[w].status = 413)
    => designs' = designs

\* C7: for a submission that passes the origin and presence checks, the
\* answer is 413 exactly when the svg is longer than 1,500,000; a 413 opens
\* no session and adds no row; an svg text of at most 1,500,000 characters
\* is stored and answered 200 unless the storage engine raises.
C7_SizeCap == []C7_Answered /\ [][C7_Step]_vars

\* C7 witness: an svg of exactly 1,500,000 characters is stored, and one of
\* 1,500,001 has just been answered 413.
C7_Witness ==
  /\ \E i \in 1..Len(designs) : PyLen(designs[i].svg) = SvgCap
  /\ \E w \in Workers :
       /\ SubmitDone(w) /\ resp[w].status = 413
       /\ PyLen(Member(req[w], "svg")) = SvgCap + 1

\* the step that answers a submission: one row for a 200, none otherwise
C8_Step ==
  \A w \in Workers :
    (pc[w] # "done" /\ pc'[w] = "done" /\ req'[w].method = "POST")
    => IF resp'[w].status = 200
       THEN /\ Len(designs') = Len(designs) + 1
            /\ SubSeq(designs', 1, Len(designs)) = designs
            /\ designs'[Len(designs')].code = resp'[w].body.code
            /\ Len(issued') = Len(issued) + 1
       ELSE designs' = designs /\ issued' = issued

\* C8: a POST /api/designs that is answered 200 adds exactly one row, which
\* carries the code of the answer, every other answer adds none, and the
\* table has as many rows as 200 answers were issued.
C8_OneRowPerAnswer ==
  /\ [](Len(designs) = Len(issued))
  /\ [][C8_Step]_vars

\* C8 witness: one submission was answered 200 and stored, and others ended
\* with 403, 400, 413 and a refused insert.
C8_Witness ==
  /\ Len(designs) = 1 /\ Len(issued) = 1
  /\ \E w \in Workers :
       /\ SubmitDone(w) /\ resp[w].status = 500
       /\ resp[w].body.raised = "IntegrityError"
  /\ \E w \in Workers : SubmitDone(w) /\ resp[w].status \in {403, 400, 413}

\* C9: a submission looks its candidates up in the store at most 3 times;
\* when all 3 lookups found the candidate taken it has not failed: it is at
\* the insert, holding the candidate generated after the last lookup.
C9_BoundedRetry ==
  \A w \in Workers :
    pc[w] \in {"query", "commit"}
    => /\ loc[w].queried <= Attempts
       /\ loc[w].i <= Attempts
       /\ pc[w] = "query" => loc[w].queried = loc[w].i /\ loc[w].i < Attempts
       /\ loc[w].i = Attempts
            => /\ pc[w] = "commit"
               /\ loc[w].queried = Attempts
               /\ loc[w].generated = loc[w].queried + 1

\* C9 witness: a submission found all 3 candidates taken and went on to
\* insert the last one, and was answered 200.
C9_Witness ==
  /\ \E i \in 1..Len(issued) : issued[i].collisions = Attempts
  /\ Len(designs) = 2

\* the request carries exactly the configured username and password
CredentialsMatch(r) ==
  /\ r.auth # None
  /\ r.auth.username = config.ADMIN_USER
  /\ r.auth.password = config.ADMIN_PASS

\* C10: with an administrator username and password both configured, a
\* GET /d/{code} without credentials, or with a username or password that is
\* not exactly the configured one, is answered 401 with a WWW-Authenticate
\* Basic challenge; with exactly the configured credentials and the code of
\* a stored row it is answered 200, unless the storage engine raises.
C10_Gate ==
  \A w \in Workers :
    (ViewDone(w) /\ config.ADMIN_USER # Empty /\ config.ADMIN_PASS # Empty)
    => IF CredentialsMatch(req[w])
       THEN (\E i \in 1..Len(designs) : designs[i].code = req[w].code)
            => resp[w].status = 200 \/ StorageRaised(resp[w])
       ELSE /\ resp[w].status = 401
            /\ DOMAIN resp[w].headers = {"WWW-Authenticate"}
            /\ resp[w].headers["WWW-Authenticate"] = "Basic realm=\"Designs\""
            /\ resp[w].body = [text |-> "Authentication required"]

\* C10 witness: credentials are configured, a row is stored, and a GET for
\* its code with the right username and a wrong password was answered 401.
C10_Witness ==
  \E w \in Workers :
    /\ ViewDone(w) /\ resp[w].status = 401
    /\ config.ADMIN_USER = AdminUser /\ config.ADMIN_PASS = AdminPass
    /\ req[w].auth = Basic(AdminUser, WrongPass)
    /\ \E i \in 1..Len(designs) : designs[i].code = req[w].code

\* C11: when the administrator username or the administrator password is not
\* configured, no GET /d/{code} is answered 401, with or without credentials
\* and whatever they are: the code of a stored row is answered 200 and an
\* unknown code 404, unless the storage engine raises.
C11_FailOpen ==
  \A w \in Workers :
    (ViewDone(w)
     /\ (config.ADMIN_USER = Empty \/ config.ADMIN_PASS = Empty))
    => /\ resp[w].status # 401
       /\ \/ StorageRaised(resp[w])
          \/ IF \E i \in 1..Len(designs) : designs[i].code = req[w].code
             THEN resp[w].status = 200
             ELSE resp[w].status = 404

\* C11 witness: only the username is configured, and a GET that presents a
\* wrong username and a wrong password is answered 200 for a stored code.
C11_Witness ==
  \E w \in Workers :
    /\ ViewDone(w) /\ resp[w].status = 200
    /\ config.ADMIN_USER = AdminUser /\ config.ADMIN_PASS = Empty
    /\ req[w].auth = Basic(WrongUser, WrongPass)

\* a request to /api/designs, preflight or submission, has been answered
ApiDone(w) == pc[w] = "done" /\ req[w].route = "/api/designs"

\* the response carries this header with this value
HasHeader(rsp, k, v) == k \in DOMAIN rsp.headers /\ rsp.headers[k] = v

\* C12: when the allowed origin is the wildcard, no request to /api/designs
\* is answered 403, and every 204, 200, 400 and 413 the endpoint returns
\* carries Access-Control-Allow-Origin equal to the Origin of the request, or
\* '*' when the request has none, with Vary: Origin and
\* Access-Control-Allow-Credentials: true.
C12_Wildcard ==
  \A w \in Workers :
    (ApiDone(w) /\ config.ALLOWED_ORIGIN = Star)
    => /\ resp[w].status # 403
       /\ resp[w].status \in {204, 200, 400, 413}
          => /\ HasHeader(resp[w], "Access-Control-Allow-Origin",
                          IF req[w].origin \in {None, Empty}
                          THEN Star ELSE req[w].origin)
             /\ HasHeader(resp[w], "Vary", "Origin")
             /\ HasHeader(resp[w], "Access-Control-Allow-Credentials", "true")

\* C12 witness: under the wildcard a submission from one origin was answered
\* 200, and one without Origin is then answered 400 with '*'.
C12_Witness ==
  /\ config.ALLOWED_ORIGIN = Star
  /\ Len(issued) = 1 /\ issued[1].req.origin = EvilOrigin
  /\ \E w \in Workers :
       /\ ApiDone(w) /\ resp[w].status = 400 /\ req[w].origin = None
       /\ HasHeader(resp[w], "Access-Control-Allow-Origin", Star)

\* the request is let through: a credential is not configured, or the
\* request carries exactly the configured pair
GatePassed(r) ==
  config.ADMIN_USER = Empty \/ config.ADMIN_PASS = Empty \/ CredentialsMatch(r)

\* the answers to the retrievals that name no stored code
C13_Answered ==
  \A w \in Workers :
    (ViewDone(w) /\ GatePassed(req[w])
     /\ ~\E i \in 1..Len(designs) : designs[i].code = req[w].code)
    => \/ StorageRaised(resp[w])
       \/ /\ resp[w].status = 404
          /\ resp[w].body = [text |-> "Code not found"]

\* the step that answers 404 leaves the table alone
C13_Step ==
  \A w \in Workers :
    (pc[w] # "done" /\ pc'[w] = "done" /\ resp'[w].status = 404)
    => designs' = designs

\* C13: a GET /d/{code} that passes the credential gate, or arrives when no
\* credentials are configured, and names a code no row has is answered 404
\* with the body "Code not found", unless the storage engine raises, and
\* leaves the table as it was.
C13_UnknownCode == []C13_Answered /\ [][C13_Step]_vars

\* C13 witness: with credentials configured and a row stored, a GET with the
\* right credentials for another code is answered 404.
C13_Witness ==
  \E w \in Workers :
    /\ ViewDone(w) /\ resp[w].status = 404
    /\ config.ADMIN_USER = AdminUser /\ config.ADMIN_PASS = AdminPass
    /\ req[w].auth = Basic(AdminUser, AdminPass)
    /\ req[w].code = UnknownCode
    /\ Len(designs) >= 1

\* the step of a submission whose insert the store refuses: it ends with a
\* server error, and neither the table nor the answers issued change
C14_Step ==
  \A w \in Workers :
    (/\ pc[w] = "commit" /\ pc'[w] # "commit"
     /\ UniqueViolation(designs, loc[w].code))
    => /\ pc'[w] = "done"
       /\ resp'[w].status = 500
       /\ designs' = designs
       /\ issued' = issued

\* a submission that has been answered is not taken up again
C14_NoRetry ==
  \A w \in Workers : pc[w] = "done" => pc'[w] \in {"done", "idle"}

\* the submission that lost holds a server error and no 200, and the table
\* has the rows of the 200 answers and no other
C14_Answered ==
  \A w \in Workers :
    (SubmitDone(w) /\ resp[w].status = 500
     /\ resp[w].body.raised = "IntegrityError")
    => /\ Len(designs) >= 1
       /\ Len(designs) = Len(issued)
       /\ \A i \in 1..Len(designs) : designs[i].code = issued[i].code

\* C14: when the store refuses the insert at commit, because a concurrent
\* submission that saw the same candidate unused committed it first or
\* because the candidate drawn after the last lookup is already stored, the
\* submission ends with a server error and not a 200, is not retried, and
\* leaves the table as it was, holding the other submission's row.
C14_CommitRejected ==
  []C14_Answered /\ [][C14_Step /\ C14_NoRetry]_vars

\* C14 witness: two submissions found the same candidate unused; one was
\* answered 200 and the other has ended with the error of the refused
\* insert, with one row stored.
C14_Witness ==
  \E v, w \in Workers :
    /\ SubmitDone(v) /\ resp[v].status = 200
    /\ SubmitDone(w) /\ resp[w].status = 500
    /\ resp[w].body.raised = "IntegrityError"
    /\ Len(designs) = 1 /\ issued[1].collisions = 0

\* C15: with a specific allowed origin configured, no answer of /api/designs
\* to a request whose Origin is absent or differs from it carries
\* Access-Control-Allow-Origin or Access-Control-Allow-Credentials; a
\* preflight is answered 204 with the allowed methods and headers, without
\* any allow-origin header from another origin and echoing the origin from
\* the configured one.
C15_NoCorsForOthers ==
  \A w \in Workers :
    (ApiDone(w) /\ config.ALLOWED_ORIGIN # Star)
    => /\ req[w].origin # config.ALLOWED_ORIGIN
          => /\ "Access-Control-Allow-Origin" \notin DOMAIN resp[w].headers
             /\ "Access-Control-Allow-Credentials"
                  \notin DOMAIN resp[w].headers
       /\ req[w].method = "OPTIONS"
          => /\ resp[w].status = 204
             /\ HasHeader(resp[w], "Access-Control-Allow-Methods",
                          "POST, OPTIONS")
             /\ HasHeader(resp[w], "Access-Control-Allow-Headers",
                          "Content-Type, Authorization")
             /\ req[w].origin = config.ALLOWED_ORIGIN
                => HasHeader(resp[w], "Access-Control-Allow-Origin",
                             req[w].origin)

\* C15 witness: under a specific allowed origin a preflight from another
\* origin is answered 204 with the allowed methods and headers and nothing
\* else.
C15_Witness ==
  \E w \in Workers :
    /\ ApiDone(w) /\ req[w].method = "OPTIONS"
    /\ config.ALLOWED_ORIGIN = GoodOrigin /\ req[w].origin = EvilOrigin
    /\ resp[w].status = 204
    /\ DOMAIN resp[w].headers
         = {"Access-Control-Allow-Methods", "Access-Control-Allow-Headers"}

\* C16: with both credentials configured, a GET /d/{code} without the exact
\* credentials is answered by one and the same 401 response, whether a row
\* with that code is stored or not and whatever the code, and no session is
\* opened for it.
C16_SameRefusal ==
  \A w \in Workers :
    (ViewDone(w) /\ config.ADMIN_USER # Empty /\ config.ADMIN_PASS # Empty
     /\ ~CredentialsMatch(req[w]))
    => resp[w] = [ status |-> 401,
                   body |-> [text |-> "Authentication required"],
                   headers |-> [h \in {"WWW-Authenticate"} |->
                                  "Basic realm=\"Designs\""],
                   session |-> "none" ]

\* C16 witness: rows are stored, and a GET without credentials for a code
\* that no row has is answered 401.
C16_Witness ==
  \E w \in Workers :
    /\ ViewDone(w) /\ resp[w].status = 401
    /\ config.ADMIN_USER = AdminUser /\ config.ADMIN_PASS = AdminPass
    /\ req[w].auth = None /\ req[w].code = UnknownCode
    /\ Len(designs) = 2

\* C17: the state blob of the row a 200 answer stored is the submitted state
\* unchanged when it is a string, the empty string included; the text of the
\* value when it is present and not a string, falsy values such as 0, false,
\* an empty list and an empty object included; and null exactly when the
\* state is absent or null.
C17_StateBlob ==
  \A i \in 1..Len(issued) :
    LET st == Member(issued[i].req, "state")
        blob == designs[i].state_json
    IN /\ designs[i].code = issued[i].code
       /\ st.t = "str" => blob = st
       /\ st.t \notin {"str", "None"} => blob.t = "str" /\ blob = Str(Repr(st))
       /\ blob = None <=> st = None
       /\ st = Num(0) => blob = Str(<<"0">>)
       /\ st = Bool(FALSE) => blob = Str(<<"F", "a", "l", "s", "e">>)
       /\ st = List(<<>>) => blob = Str(<<"[", "]">>)
       /\ st = EmptyDict => blob = Str(<<"{", "}">>)

\* C17 witness: a submission with the state 0 and one with the state "" are
\* stored, with the blobs "0" and "".
C17_Witness ==
  /\ Len(issued) = 2
  /\ Member(issued[1].req, "state") = Num(0)
  /\ Member(issued[2].req, "state") = Empty
  /\ designs[1].state_json = Str(<<"0">>)
  /\ designs[2].state_json = Empty

\* the text s lowercased, each run of characters that are not alphanumeric
\* made one '-'; sep tells that the character before was of such a run
RECURSIVE Collapsed(_, _)
Collapsed(s, sep) ==
  IF s = <<>> THEN <<>>
  ELSE IF IsAlnum(Head(s)) THEN <<Lower(Head(s))>> \o Collapsed(Tail(s), FALSE)
  ELSE IF sep THEN Collapsed(Tail(s), TRUE)
  ELSE <<"-">> \o Collapsed(Tail(s), TRUE)

\* the name the download is to have for this product reference
CollapsedName(product_id) ==
  LET trimmed == LStripDash(RStripDash(Collapsed(product_id.s, FALSE)))
  IN IF trimmed = <<>> THEN DefaultName.s ELSE trimmed

\* C20 as stated: the download filename of the page of a stored row is its
\* product reference lowercased, each run of non-alphanumeric characters
\* collapsed to one separator, separators trimmed at both ends, the default
\* name when nothing is left, followed by '-', the code and '.svg'.
C20_Original ==
  \A w \in Workers : \A i \in 1..Len(designs) :
    (ViewDone(w) /\ resp[w].status = 200 /\ designs[i].code = req[w].code)
    => resp[w].body.html.download
         = Str(CollapsedName(designs[i].product_id) \o <<"-">>
               \o req[w].code.s \o <<".", "s", "v", "g">>)

\* the workers whose handler holds a session that is not closed
OpenSessions ==
  {w \in Workers : pc[w] \in {"query", "commit"}}
    \cup {w \in Workers : pc[w] = "done" /\ resp[w].session = "open"}

\* C18: a handler that has returned has closed the session it opened, on
\* the 200 and 404 paths and when a query or the commit raised, so that no
\* session is open once no request is in flight; a handler that returned
\* 403, 400, 413, 401 or the preflight 204 never opened one.
C18_SessionsClosed ==
  /\ \A w \in Workers :
       pc[w] = "done"
       => /\ resp[w].session \in {"none", "closed"}
          /\ resp[w].status \in {403, 400, 413, 401, 204}
             => resp[w].session = "none"
          /\ (\/ resp[w].status = 404
              \/ resp[w].status = 200 /\ req[w].route # "/healthz"
              \/ StorageRaised(resp[w]))
             => resp[w].session = "closed"
  /\ (\A w \in Workers : pc[w] \in {"idle", "done"}) => OpenSessions = {}

\* C18 witness: with a row stored, the lookup of a retrieval that passed the
\* gate raised, and the handler has returned with its session closed.
C18_Witness ==
  \E w \in Workers :
    /\ ViewDone(w) /\ StorageRaised(resp[w])
    /\ resp[w].session = "closed"
    /\ Len(designs) = 1
    /\ OpenSessions = {}

\* C19: no step of the service, whether a submission that succeeds or
\* fails, a retrieval, a preflight, a health check or the passing of time,
\* removes a stored row or changes one of its fields: the table only grows
\* at its end.
C19_Immutable ==
  [][/\ Len(designs') >= Len(designs)
     /\ \A i \in 1..Len(designs) : designs'[i] = designs[i]]_vars

\* C19 witness: a row created at time 0 is still the first row after time
\* has passed, another row was stored and a health check was answered.
C19_Witness ==
  /\ Len(designs) = 2
  /\ designs[1].created_at = 0 /\ designs[2].created_at = 1
  /\ designs[1].product_id # designs[2].product_id
  /\ \E w \in Workers : pc[w] = "done" /\ req[w].route = "/healthz"

====
